---- MODULE Spec2Model ----
(***************************************************************************)
(* Model of the watch scheduling and scan-processing pipeline of bnbalerts *)
(* (app/services/scheduler.py, app/services/scan_processor.py), of the     *)
(* watch and preference endpoints (app/api/watches.py, app/api/users.py)   *)
(* and of the notification gateway (app/services/notification/manager.py). *)
(*                                                                         *)
(* Time is an integer number of seconds.  The scheduler loop is one        *)
(* asyncio task; pc is its position, and every action is the code between  *)
(* two suspension points (awaits).  Each repository, provider and user     *)
(* directory call draws its outcome (a value, or an exception) from a      *)
(* small set.                                                              *)
(*                                                                         *)
(* Specifications, each over the variables of its part (the others keep    *)
(* their initial values):                                                  *)
(*   Spec         the loop task, iteration by iteration, scan by scan      *)
(*   StopSpec     the same, with stop() called at any moment               *)
(*   LifeSpec     start(), stop() and the loop tasks they leave behind     *)
(*   ApiSpec      create / update / delete of one user's watches, and the  *)
(*                scan of one of them, interleaved                         *)
(*   NotifySpec   one user's channel preferences and the scans that notify *)
(*   GatewaySpec  send_multi_channel on every combination of arguments     *)
(*   StopFairSpec StopSpec with the loop task's steps taken eventually     *)
(*   CheckSpec    check_availability on scraped batches, real and made up  *)
(*   DetectSpec   detect_booked_properties on pairs of search results      *)
(*   TimeSpec     calculate_next_scan_time and the document of create_watch*)
(*   RaceSpec     the loop task with one PATCH or DELETE at any moment     *)
(***************************************************************************)
EXTENDS Integers, Sequences, FiniteSets, TLC

\* ---------------------------------------------------------------- bounds
NumWatches == 2
MaxTicks == 2
MaxScans == 3
MaxFaults == 1
MaxLoops == 2
MaxUserWatches == 6
NumRequests == 2
MaxBatch == 2
MaxListings == 3
MaxDay == 1

\* ------------------------------------------------------ program constants
MAX_ACTIVE_WATCHES_PER_USER == 5
NOTIFICATION_COOLDOWN_HOURS == 24
SCHEDULER_CHECK_INTERVAL_SECONDS == 60
DAILY_SCAN_HOUR == 12
HOURLY_SCAN_INTERVAL_HOURS == 1
SNIPER_SCAN_INTERVAL_MINUTES == 5

\* ------------------------------------------------------------ time units
MINUTE == 60 * 1
HOUR == 60 * MINUTE
DAY == 24 * HOUR
NULL == 0 - 1

\* The watches were created at 10:30:00 of day 0; the scheduler is started
\* at 12:30:00 of day 1 (an application restart), so that watches of every
\* frequency are due in the first iteration.
CreatedAt == 10 * HOUR + 30 * MINUTE

\* The check-in date of every watch is day 1, the day the scheduler starts.
CheckInDate == 1
StartClock == DAY + 12 * HOUR + 30 * MINUTE

\* Time that passes between the start of two loop iterations: the sleep of
\* asyncio.sleep plus whatever the batch took; never less than the interval.
SleepDeltas ==
    { HOURLY_SCAN_INTERVAL_HOURS * HOUR,
      NOTIFICATION_COOLDOWN_HOURS * HOUR - 1,
      NOTIFICATION_COOLDOWN_HOURS * HOUR }

WatchIds == 1..NumWatches
Frequencies == {"daily", "hourly", "sniper"}
FrequencyOf == [i \in 0..2 |-> <<"daily", "hourly", "sniper">>[i + 1]]

VARIABLES
    clock,          \* datetime.now()
    watches,        \* db.watches: id -> document
    scan_logs,      \* db.scan_logs, in insertion order
    running,        \* SchedulerService._running
    pc,             \* position of the loop task
    tick_now,       \* `now` of _process_due_watches
    batch,          \* the documents of the due-query not yet handled
    cur,            \* the WatchInDB being processed
    scan_result,    \* process_watch: scan_result
    error_message,  \* process_watch: error_message
    in_except,      \* process_watch: inside its except block
    ticks,          \* loop iterations started
    faults,         \* repository / directory failures injected so far
    exc_origin,     \* where the exception caught at scheduler.py:174 came from
    due_set,        \* ids returned by the due-query of this iteration
    handled,        \* id -> process_watch calls in this iteration
    unbuilt,        \* ids whose WatchInDB(...) raised in this iteration
    events,         \* what the current process_watch call did, in order
    dispatch_log,   \* id -> times of the send_multi_channel calls
    gate_seen,      \* lastNotificationSent read by the cooldown gate
    call_start,     \* the stored document when process_watch was entered
    n_calls,        \* id -> process_watch calls so far
    repo_faulted,   \* id -> a scan_logs insert or watches update failed
    delivered,      \* _handle_availability_match: some channel of `results` is True
    stop_batch,     \* where the loop task was when stop() was called
    loops,          \* the tasks start() created running _loop, each with its position
    user_watches,   \* db.watches of one user: status -> number of documents
    requests,       \* the create_watch requests in flight
    api_scan,       \* status of the user's watch a process_watch call is working on
    user_doc,       \* the db.users document of that user
    sent,           \* the latest send_multi_channel call: arguments and outcome
    checked,        \* the check_availability call in progress, or the latest one
    detected,       \* the detect_booked_properties call in progress, or the latest one
    timed,          \* the latest next-scan-time computation or create_watch insert
    user_request    \* the PATCH or DELETE /watches/{id} request of the user

vars == <<clock, watches, scan_logs, running, pc, tick_now, batch, cur,
          scan_result, error_message, in_except, ticks, faults, exc_origin,
          due_set, handled, unbuilt, events, dispatch_log, gate_seen, call_start,
          n_calls, repo_faulted, delivered, stop_batch, loops, user_watches,
          requests, api_scan, user_doc, sent, checked, detected, timed,
          user_request>>

\* the loop tasks, as start() and stop() see them
life_vars == <<loops>>

\* one user's watches, as the watch API sees them
api_vars == <<user_watches, requests, api_scan>>

\* one user's channel preferences and the notification gateway
notify_vars == <<user_doc, sent>>

\* the availability checker and its scraping client
check_vars == <<checked>>

\* the booking detector
detect_vars == <<detected>>

\* the next-scan-time functions and the document create_watch stores
time_vars == <<timed>>

\* a request on a watch of the scheduler's collection, made while the loop runs
race_vars == <<user_request>>

\* the parts below the scan processor and beside the loop task
side_vars == <<check_vars, detect_vars, time_vars, race_vars>>


\* state that no step of the loop task modelled by pc writes
ext_vars == <<stop_batch, life_vars, api_vars, notify_vars, side_vars>>

\* the state of the loop task and of the scan in progress
sched_vars == <<clock, watches, scan_logs, running, pc, tick_now, batch, cur,
                scan_result, error_message, in_except, ticks, faults,
                exc_origin, due_set, handled, unbuilt, events, dispatch_log,
                gate_seen, call_start, n_calls, repo_faulted, delivered>>

\* the variables of the loop task, of the watch API and of the gateway
core_vars == <<sched_vars, stop_batch, life_vars, api_vars, notify_vars>>

\* ------------------------------------------------------- pure functions

\* as calculate_next_scan_time, but daily forgets timedelta(days=1)
calculate_next_scan_time_same_day(frequency, base_time) ==
    IF frequency = "daily"
    THEN (base_time \div DAY) * DAY + DAILY_SCAN_HOUR * HOUR
    ELSE IF frequency = "sniper"
    THEN base_time + SNIPER_SCAN_INTERVAL_MINUTES * MINUTE
    ELSE ((base_time + HOURLY_SCAN_INTERVAL_HOURS * HOUR) \div HOUR) * HOUR

\* SchedulerService._calculate_next_scan_time
calculate_next_scan_time(frequency, base_time) ==
    IF frequency = "daily"
    THEN ((base_time + DAY) \div DAY) * DAY + DAILY_SCAN_HOUR * HOUR
    ELSE IF frequency = "hourly"
    THEN ((base_time + HOURLY_SCAN_INTERVAL_HOURS * HOUR) \div HOUR) * HOUR
    ELSE IF frequency = "sniper"
    THEN base_time + SNIPER_SCAN_INTERVAL_MINUTES * MINUTE
    ELSE ((base_time + HOURLY_SCAN_INTERVAL_HOURS * HOUR) \div HOUR) * HOUR

\* ScanProcessor._should_send_notification, after the document is read
should_send_notification(last_notification, now) ==
    IF last_notification = NULL
    THEN TRUE
    ELSE ~ (now - last_notification < NOTIFICATION_COOLDOWN_HOURS * HOUR)

\* the filter of the due-query
IsDue(doc, now) == doc.status = "active" /\ doc.nextScanAt <= now

RECURSIVE DocsFrom(_, _, _)
DocsFrom(i, ws, now) ==
    IF i > NumWatches THEN <<>>
    ELSE IF IsDue(ws[i], now)
         THEN <<[id |-> i, frequency |-> ws[i].frequency]>> \o DocsFrom(i + 1, ws, now)
         ELSE DocsFrom(i + 1, ws, now)

\* cursor.to_list: the documents matching the filter, in collection order
DueWatches(ws, now) == DocsFrom(1, ws, now)

\* watches.py calculate_expires_at: 23:59:59 of the check-in date
calculate_expires_at(check_in_date) ==
    check_in_date * DAY + 23 * HOUR + 59 * MINUTE + 59

\* the document create_watch inserts
NewWatch(frequency) ==
    [status |-> "active",
     frequency |-> frequency,
     nextScanAt |-> calculate_next_scan_time(frequency, CreatedAt),
     expiresAt |-> calculate_expires_at(CheckInDate),
     lastScannedAt |-> NULL,
     lastNotificationSent |-> NULL,
     errorMessage |-> "null",
     updatedAt |-> CreatedAt]

\* what is left of a document after delete_one: find_one returns None, a
\* filter on its _id matches nothing
DeletedDoc ==
    [status |-> "deleted",
     frequency |-> "none",
     nextScanAt |-> NULL,
     expiresAt |-> NULL,
     lastScannedAt |-> NULL,
     lastNotificationSent |-> NULL,
     errorMessage |-> "null",
     updatedAt |-> NULL]

\* as update_one, but with upsert=True
update_one_upsert(ws, id, doc) == [ws EXCEPT ![id] = doc]

\* db.watches.update_one({"_id": id}, {"$set": ...}): doc is the document
\* after the $set; a filter that matches nothing writes nothing
update_one(ws, id, doc) ==
    IF ws[id] = DeletedDoc THEN ws ELSE [ws EXCEPT ![id] = doc]

\* _should_send_notification: `if not watch_doc: return False`, then the
\* cooldown test
gate_passes(doc, now) ==
    /\ doc # DeletedDoc
    /\ should_send_notification(doc.lastNotificationSent, now)

\* as CreateScanLogCatches, but _create_scan_log lets the exception out
CreateScanLogRaises == FALSE

\* as HandleMatchCatches, but _handle_availability_match has no try/except
HandleMatchRaises == FALSE

\* which try/except contains a failing call
CreateScanLogCatches == TRUE
UpdateWatchRaises == FALSE
UpdateWatchCatches == TRUE
HandleMatchCatches == TRUE

LogsOf(w) == SelectSeq(scan_logs, LAMBDA l : l.watch_id = w)



\* ----------------------------------------------------- notification gateway

\* a key of a stored document that no writer has set
ABSENT == "absent"

\* dict.get(key, default) of a stored boolean ("true" / "false")
Get(value, default) == IF value = ABSENT THEN default ELSE value = "true"

\* Python truthiness of an Optional[str] destination
Truthy(destination) == destination \notin {"null", ""}

\* what provider.send does: returns True, returns False, or raises
ProviderOutcomes == {"true", "false", "raise"}

\* as SendNotificationCatches, but provider.send is called outside a try
SendNotificationRaises == FALSE

\* NotificationManager.send_notification: provider.send sits in try/except
SendNotificationCatches == TRUE

\* NotificationManager.send_notification: value is what the call returns
\* ("raised": the exception leaves it), invoked tells if provider.send ran
send_notification(user_prefs, notification_type, registered, outcome) ==
    IF notification_type = "email" /\ ~ user_prefs.emailEnabled
    THEN [value |-> "false", invoked |-> FALSE]
    ELSE IF notification_type = "sms" /\ ~ user_prefs.smsEnabled
    THEN [value |-> "false", invoked |-> FALSE]
    ELSE IF ~ registered
    THEN [value |-> "false", invoked |-> FALSE]
    ELSE IF outcome = "raise"
    THEN [value |-> IF SendNotificationCatches THEN "false" ELSE "raised",
          invoked |-> TRUE]
    ELSE [value |-> outcome, invoked |-> TRUE]

\* NotificationManager.send_multi_channel: email first, then sms; results has
\* an entry for every channel whose send_notification returned
send_multi_channel(user_prefs, email, phone, providers, outcomes) ==
    LET tryEmail == user_prefs.emailEnabled /\ Truthy(email)
        e == send_notification(user_prefs, "email", providers.email, outcomes.email)
        emailRaised == tryEmail /\ e.value = "raised"
        trySms == ~ emailRaised /\ user_prefs.smsEnabled /\ Truthy(phone)
        m == send_notification(user_prefs, "sms", providers.sms, outcomes.sms)
        smsRaised == trySms /\ m.value = "raised"
    IN  [results |->
             [email |-> IF tryEmail /\ ~ emailRaised THEN e.value ELSE ABSENT,
              sms |-> IF trySms /\ ~ smsRaised THEN m.value ELSE ABSENT],
         invoked |-> (IF tryEmail /\ e.invoked THEN {"email"} ELSE {})
                         \cup (IF trySms /\ m.invoked THEN {"sms"} ELSE {}),
         raised |-> emailRaised \/ smsRaised]

\* main.py lifespan: a provider is registered for both channels
Providers == [email |-> TRUE, sms |-> TRUE]

\* the document signup inserts into db.users: the channel switches are
\* top-level keys; it has no notification_preferences and no
\* notificationPreferences key
SignupUser ==
    [email |-> "addr",
     phone |-> "addr",
     smsEnabled |-> TRUE,
     emailEnabled |-> FALSE,
     notification_preferences_smsEnabled |-> ABSENT,
     notification_preferences_emailEnabled |-> ABSENT,
     notificationPreferences_smsEnabled |-> ABSENT,
     notificationPreferences_emailEnabled |-> ABSENT]

\* _handle_availability_match: the NotificationPreferences built from
\* user_doc.get("notificationPreferences", {})
scan_user_prefs(doc) ==
    [emailEnabled |-> Get(doc.notificationPreferences_emailEnabled, TRUE),
     smsEnabled |-> Get(doc.notificationPreferences_smsEnabled, FALSE)]

\* some channel of the results dict is True
AnyDelivered(r) == r.results.email = "true" \/ r.results.sms = "true"


\* ---------------------------------------------------- availability checker
\* A URL is the sequence of its parts: "h" is https://www.airbnb.com, "H" the
\* same in capitals, "rooms" / "ROOMS" the path segment, "1" and "2" digits,
\* "?" a query string, " " white space, "mock" the whole of
\* https://mock-success.  The empty sequence is the empty string.

Digits == {"1", "2"}

\* str.lower
Lower(u) ==
    [i \in DOMAIN u |-> IF u[i] = "H" THEN "h"
                        ELSE IF u[i] = "ROOMS" THEN "rooms" ELSE u[i]]

RECURSIVE LStrip(_, _)
LStrip(u, c) == IF u # <<>> /\ Head(u) = c THEN LStrip(Tail(u), c) ELSE u

\* str.rstrip(c)
RECURSIVE RStrip(_, _)
RStrip(u, c) ==
    IF u # <<>> /\ u[Len(u)] = c THEN RStrip(SubSeq(u, 1, Len(u) - 1), c) ELSE u

\* str.strip
Strip(u) == RStrip(LStrip(u, " "), " ")

\* _matches_url: url.lower().strip().rstrip('/')
Normalized(u) == RStrip(Strip(Lower(u)), "/")

RECURSIVE DigitsFrom(_, _)
DigitsFrom(u, i) ==
    IF i <= Len(u) /\ u[i] \in Digits THEN <<u[i]>> \o DigitsFrom(u, i + 1) ELSE <<>>

\* the least element of a non-empty set of numbers
Least(S) == CHOOSE i \in S : \A j \in S : i <= j

\* AvailabilityChecker._extract_property_id: re.search(r'/rooms/(\d+)', url)
\* on the URL as given; <<>> is None
extract_property_id(url) ==
    LET hits == {i \in 1..(Len(url) - 3) :
                    /\ url[i] = "/"
                    /\ url[i + 1] = "rooms"
                    /\ url[i + 2] = "/"
                    /\ url[i + 3] \in Digits}
    IN  IF hits = {} THEN <<>> ELSE DigitsFrom(url, Least(hits) + 3)

\* AvailabilityChecker._matches_url
matches_url(scraped_url, watch_url) ==
    IF scraped_url = <<>> \/ watch_url = <<>>
    THEN FALSE
    ELSE IF Normalized(scraped_url) = Normalized(watch_url)
    THEN TRUE
    ELSE /\ extract_property_id(scraped_url) # <<>>
         /\ extract_property_id(watch_url) # <<>>
         /\ extract_property_id(scraped_url) = extract_property_id(watch_url)

\* models/property.py PropertyResult: the fields declared without a default
PropertyResultRequired == {"id", "name", "location", "price", "guests", "url"}

\* the keyword arguments check_availability passes to PropertyResult(...)
CheckerKeywords ==
    {"propertyId", "propertyName", "location", "price", "imageUrl", "dates",
     "guests", "status", "propertyUrl"}

\* PropertyResult(**keywords): pydantic raises ValidationError when a required
\* field is not among the keywords (a keyword that is no field is ignored)
PropertyResultRaises(keywords) == ~ (PropertyResultRequired \subseteq keywords)

MockSuccessUrl == <<"mock">>

\* what a check_availability call ends with: a verdict and the index in the
\* batch of the listing returned with it (0: None), or an exception
Returned(result, listing) ==
    [kind |-> "returned", result |-> result, listing |-> listing]

Raised(exception) == [kind |-> "raised", result |-> exception, listing |-> 0]

\* check_availability, from the batch scrape_properties returned
check_availability(watch, scraped_properties) ==
    IF scraped_properties = <<>>
    THEN Returned("unavailable", 0)
    ELSE IF watch.propertyUrl = MockSuccessUrl
    THEN IF PropertyResultRaises(CheckerKeywords)
         THEN Raised("ValidationError")
         ELSE Returned("available", 1)
    ELSE LET hits == {i \in DOMAIN scraped_properties :
                        \/ matches_url(scraped_properties[i].propertyUrl,
                                       watch.propertyUrl)
                        \/ /\ watch.propertyId # ""
                           /\ scraped_properties[i].propertyId = watch.propertyId}
         IN  IF hits = {}
             THEN Returned("unavailable", 0)
             ELSE IF PropertyResultRaises(CheckerKeywords)
             THEN Raised("ValidationError")
             ELSE Returned("available", Least(hits))

\* ApifyClient.scrape_properties: the mock listings when no token is
\* configured; else the listings of the Apify run, or, when the run fails with
\* an ApifyScrapingError (every failure of _real_scrape_properties is one),
\* the mock listings again
scrape_properties(mode, real_properties, mock_properties) ==
    IF mode = "mock" THEN mock_properties
    ELSE IF mode = "real_raise" THEN mock_properties
    ELSE real_properties

\* process_watch: scan_status of the ScanLog it writes for a call of
\* check_availability that ended with `out`
scan_status_of(out) == IF out.kind = "raised" THEN "error" ELSE "success"

\* --------------------------------------------------------- control flow

\* outcomes of a repository call: it returns, or (while the failure budget
\* lasts) it raises
Outcomes == IF faults < MaxFaults THEN {"ok", "raise"} ELSE {"ok"}

Charge(o) == faults' = IF o = "raise" THEN faults + 1 ELSE faults

\* as AfterCheck, but the match is handled before the scan is logged
AfterCheckNotifyFirst == "gate"

\* process_watch: the step after the availability check returned
AfterCheck == "log_success"

\* process_watch: `if scan_result == ScanResult.AVAILABLE`
AfterLog(result) == IF result = "available" THEN "gate" ELSE "update_active"

\* _handle_availability_match: `if not await self._should_send_notification`
AfterGate(pass) == IF pass THEN "user_lookup" ELSE "update_active"

\* _handle_availability_match: `if not user_doc: return`
AfterUser(found) == IF found THEN "dispatch" ELSE "update_active"

\* as AfterDispatch, but lastNotificationSent is written only after a delivery
AfterDispatchIfDelivered(d) == IF d = "yes" THEN "notif_write" ELSE "update_active"

\* _handle_availability_match: after send_multi_channel the results are
\* logged and the update of lastNotificationSent follows, whatever they are
AfterDispatch(d) == "notif_write"

\* as AfterQueryFailure, but the exception of the due-query ends the loop task
AfterQueryFailureFatal == "done"

\* _process_due_watches: the outer except logs the exception of the due-query
\* and the function returns; _loop goes on to its sleep
AfterQueryFailure == "sleep"

\* as AfterWatchFailure, but the try/except is around the for-loop
AfterWatchFailureAbort(docs) == <<>>

\* _process_due_watches: the try/except is inside the for-loop, so after a
\* failure the loop goes on with the documents that remain
AfterWatchFailure(docs) == Tail(docs)

\* as insert_one, but a document equal to the latest one is not stored again
insert_one_dedup(logs, doc) ==
    IF logs # <<>> /\ logs[Len(logs)] = doc THEN logs ELSE Append(logs, doc)

\* db.scan_logs.insert_one
insert_one(logs, doc) == Append(logs, doc)

\* the ScanLogCreate of the success path
success_log_doc(w, result) ==
    [watch_id |-> w, status |-> "success", result |-> result,
     error_message |-> "null"]

\* as error_log_doc, but scan_status is left at its initial SUCCESS
error_log_doc_status_kept(w, message) ==
    [watch_id |-> w, status |-> "success", result |-> "null",
     error_message |-> message]

\* the ScanLogCreate of the except block
error_log_doc(w, message) ==
    [watch_id |-> w, status |-> "error", result |-> "null",
     error_message |-> message]

Continue(p) ==
    /\ pc' = p
    /\ UNCHANGED <<in_except, error_message, exc_origin>>

\* An exception raised inside process_watch: swallowed by the try/except of
\* the function it was raised in (control continues at p), else caught by
\* the except of process_watch, else (raised inside that except block) it
\* leaves process_watch and reaches the except of the scheduler's for-loop.
RaiseFrom(caught, p) ==
    IF caught
    THEN Continue(p)
    ELSE IF ~ in_except
    THEN /\ pc' = "log_error"
         /\ in_except' = TRUE
         /\ error_message' = "db_error"
         /\ UNCHANGED exc_origin
    ELSE /\ pc' = "watch_except"
         /\ exc_origin' = "process_watch"
         /\ UNCHANGED <<in_except, error_message>>

Note(e) == events' = Append(events, e)

NoWatch == [id |-> 0, frequency |-> "none"]
NoCall == [lastNotificationSent |-> NULL, lastScannedAt |-> NULL]

\* process_watch has returned: its locals are gone
ReturnFromCall ==
    /\ scan_result' = "null"
    /\ error_message' = "null"
    /\ in_except' = FALSE
    /\ events' = <<>>
    /\ gate_seen' = NULL
    /\ call_start' = NoCall
    /\ delivered' = "null"

\* ------------------------------------------------------------ scheduler

\* as WhileCondition, but the loop never looks at the flag
WhileTrue == TRUE

\* SchedulerService._loop: the condition of `while self._running`
WhileCondition == running

\* SchedulerService._loop: `while self._running`
LoopTop ==
    /\ pc = "loop_top"
    /\ UNCHANGED ext_vars
    /\ IF WhileCondition
       THEN /\ ticks < MaxTicks
            /\ pc' = "query"
            /\ ticks' = ticks + 1
       ELSE /\ pc' = "done"
            /\ UNCHANGED ticks
    /\ UNCHANGED <<clock, watches, scan_logs, running, tick_now, batch, cur,
                   scan_result, error_message, in_except, faults, exc_origin,
                   due_set, handled, unbuilt, events, dispatch_log, gate_seen, delivered,
                   call_start, n_calls, repo_faulted>>

\* _process_due_watches: now, the due-query, and the outer except
Query ==
    /\ pc = "query"
    /\ UNCHANGED ext_vars
    /\ \E o \in Outcomes :
        /\ Charge(o)
        /\ tick_now' = clock
        /\ handled' = [w \in WatchIds |-> 0]
        /\ unbuilt' = {}
        /\ IF o = "ok"
           THEN /\ batch' = DueWatches(watches, clock)
                /\ due_set' = {w \in WatchIds : IsDue(watches[w], clock)}
                /\ pc' = "for_watch"
           ELSE /\ batch' = <<>>
                /\ due_set' = {}
                /\ pc' = AfterQueryFailure
    /\ UNCHANGED <<clock, watches, scan_logs, running, cur, scan_result,
                   error_message, in_except, ticks, exc_origin, events,
                   dispatch_log, gate_seen, delivered, call_start, n_calls, repo_faulted>>

\* _process_due_watches: the for-loop is exhausted
EndBatch ==
    /\ pc = "for_watch"
    /\ UNCHANGED ext_vars
    /\ batch = <<>>
    /\ pc' = "sleep"
    /\ UNCHANGED <<clock, watches, scan_logs, running, tick_now, batch, cur,
                   scan_result, error_message, in_except, ticks, faults,
                   exc_origin, due_set, handled, unbuilt, events, dispatch_log,
                   gate_seen, delivered, call_start, n_calls, repo_faulted>>

RECURSIVE CallsFrom(_)
CallsFrom(i) == IF i > NumWatches THEN 0 ELSE n_calls[i] + CallsFrom(i + 1)

\* process_watch calls made so far, over all watches
scans == CallsFrom(1)

\* _process_due_watches: WatchInDB(...) of the next document, then the call
\* of process_watch up to its first await
BuildWatch ==
    /\ pc = "for_watch"
    /\ UNCHANGED ext_vars
    /\ batch # <<>>
    /\ scans < MaxScans
    /\ \E o \in Outcomes :
        /\ Charge(o)
        /\ cur' = Head(batch)
        /\ IF o = "ok"
           THEN /\ pc' = "check"
                /\ exc_origin' = "none"
                /\ handled' = [handled EXCEPT ![Head(batch).id] = @ + 1]
                /\ UNCHANGED unbuilt
                /\ n_calls' = [n_calls EXCEPT ![Head(batch).id] = @ + 1]
                /\ call_start' =
                     [lastNotificationSent |-> watches[Head(batch).id].lastNotificationSent,
                      lastScannedAt |-> watches[Head(batch).id].lastScannedAt]
           ELSE /\ pc' = "watch_except"
                /\ exc_origin' = "build"
                /\ unbuilt' = unbuilt \cup {Head(batch).id}
                /\ UNCHANGED <<handled, n_calls, call_start>>
    /\ UNCHANGED <<clock, watches, scan_logs, running, tick_now, batch, ticks,
                   due_set, dispatch_log, repo_faulted, scan_result,
                   error_message, in_except, events, gate_seen, delivered>>

\* _process_due_watches: next_scan_at and its update_one
NextScan ==
    /\ pc = "next_scan"
    /\ UNCHANGED ext_vars
    /\ \E o \in Outcomes :
        /\ Charge(o)
        /\ IF o = "ok"
           THEN /\ watches' = update_one(watches, cur.id,
                     [watches[cur.id] EXCEPT
                         !.nextScanAt = calculate_next_scan_time(cur.frequency, tick_now),
                         !.updatedAt = tick_now])
                /\ pc' = "for_watch"
                /\ batch' = Tail(batch)
                /\ cur' = NoWatch
                /\ UNCHANGED exc_origin
           ELSE /\ pc' = "watch_except"
                /\ exc_origin' = "next_scan_write"
                /\ UNCHANGED <<watches, batch, cur>>
    /\ ReturnFromCall
    /\ UNCHANGED <<clock, scan_logs, running, tick_now, ticks, due_set,
                   handled, unbuilt, dispatch_log, n_calls, repo_faulted>>

\* _process_due_watches: the except of the for-loop body
SchedulerCatch ==
    /\ pc = "watch_except"
    /\ UNCHANGED ext_vars
    /\ pc' = "for_watch"
    /\ batch' = AfterWatchFailure(batch)
    /\ cur' = NoWatch
    /\ exc_origin' = "none"
    /\ UNCHANGED <<clock, watches, scan_logs, running, tick_now, scan_result,
                   error_message, in_except, ticks, faults, due_set, handled, unbuilt,
                   events, dispatch_log, gate_seen, delivered, call_start, n_calls,
                   repo_faulted>>

\* _loop: asyncio.sleep, and the time the iteration took
Sleep ==
    /\ pc = "sleep"
    /\ UNCHANGED ext_vars
    /\ \E d \in SleepDeltas : clock' = clock + d
    /\ pc' = "loop_top"
    /\ UNCHANGED <<watches, scan_logs, running, tick_now, batch, cur,
                   scan_result, error_message, in_except, ticks, faults,
                   exc_origin, due_set, handled, unbuilt, events, dispatch_log,
                   gate_seen, delivered, call_start, n_calls, repo_faulted>>

\* ------------------------------------------------------- scan processor

\* process_watch: check_availability returns a verdict or raises; str(e) of
\* the exception may be empty.  The outcomes are those of the declared
\* interface of the availability_checker the ScanProcessor is constructed
\* with; CheckSpec has what the AvailabilityChecker of main.py computes.
CheckAvailability ==
    /\ pc = "check"
    /\ UNCHANGED ext_vars
    /\ \E r \in {"available", "unavailable", "raise_msg", "raise_empty"} :
        IF r \in {"available", "unavailable"}
        THEN /\ scan_result' = r
             /\ Note("check")
             /\ Continue(AfterCheck)
        ELSE /\ pc' = "log_error"
             /\ in_except' = TRUE
             /\ error_message' = IF r = "raise_msg" THEN "provider_error" ELSE ""
             /\ Note("check_raise")
             /\ UNCHANGED <<scan_result, exc_origin>>
    /\ UNCHANGED <<clock, watches, scan_logs, running, tick_now, batch, cur,
                   ticks, faults, due_set, handled, unbuilt, dispatch_log, gate_seen, delivered,
                   call_start, n_calls, repo_faulted>>

\* process_watch step 2: _create_scan_log(status=success, result=scan_result)
LogSuccess ==
    /\ pc = "log_success"
    /\ UNCHANGED ext_vars
    /\ \E o \in Outcomes :
        /\ Charge(o)
        /\ IF o = "ok"
           THEN /\ scan_logs' = insert_one(scan_logs,
                                           success_log_doc(cur.id, scan_result))
                /\ Note("log")
                /\ Continue(AfterLog(scan_result))
                /\ UNCHANGED repo_faulted
           ELSE /\ repo_faulted' = [repo_faulted EXCEPT ![cur.id] = TRUE]
                /\ Note("log_fail")
                /\ RaiseFrom(CreateScanLogCatches, AfterLog(scan_result))
                /\ UNCHANGED scan_logs
    /\ UNCHANGED <<clock, watches, running, tick_now, batch, cur, scan_result,
                   ticks, due_set, handled, unbuilt, dispatch_log, gate_seen, delivered,
                   call_start, n_calls>>

\* _should_send_notification: find_one of the watch, then the cooldown test.
\* A stored datetime comes back naive from a client that is not tz_aware, and
\* datetime.now(timezone.utc) - last_notification then raises TypeError: the
\* outcome "type_error", possible whenever lastNotificationSent is set.
Gate ==
    /\ pc = "gate"
    /\ UNCHANGED ext_vars
    /\ \E o \in Outcomes \cup
                 (IF watches[cur.id].lastNotificationSent # NULL
                  THEN {"type_error"} ELSE {}) :
        /\ Charge(o)
        /\ IF o = "ok"
           THEN /\ gate_seen' = watches[cur.id].lastNotificationSent
                /\ Note("gate")
                /\ Continue(AfterGate(gate_passes(watches[cur.id], clock)))
           ELSE /\ Note("gate_raise")
                /\ RaiseFrom(HandleMatchCatches, "update_active")
                /\ gate_seen' = IF o = "type_error"
                                THEN watches[cur.id].lastNotificationSent
                                ELSE gate_seen
    /\ UNCHANGED <<clock, watches, scan_logs, running, tick_now, batch, cur,
                   scan_result, ticks, due_set, handled, unbuilt, dispatch_log,
                   delivered, call_start, n_calls, repo_faulted>>

\* _handle_availability_match: find_one of the owning user
UserLookup ==
    /\ pc = "user_lookup"
    /\ UNCHANGED ext_vars
    /\ \E o \in Outcomes \cup {"missing"} :
        /\ Charge(o)
        /\ IF o = "raise"
           THEN /\ Note("user_raise")
                /\ RaiseFrom(HandleMatchCatches, "update_active")
           ELSE /\ Note(IF o = "ok" THEN "user" ELSE "user_missing")
                /\ Continue(AfterUser(o = "ok"))
    /\ UNCHANGED <<clock, watches, scan_logs, running, tick_now, batch, cur,
                   scan_result, ticks, due_set, handled, unbuilt, dispatch_log,
                   gate_seen, delivered, call_start, n_calls, repo_faulted>>

\* _handle_availability_match: message, preferences, send_multi_channel
\* (which returns a result for every attempted channel and never raises)
Dispatch ==
    /\ pc = "dispatch"
    /\ UNCHANGED ext_vars
    /\ dispatch_log' = [dispatch_log EXCEPT ![cur.id] = Append(@, clock)]
    /\ \E o \in ProviderOutcomes :
         delivered' =
             IF AnyDelivered(send_multi_channel(scan_user_prefs(SignupUser),
                                 SignupUser.email, SignupUser.phone, Providers,
                                 [email |-> o, sms |-> o]))
             THEN "yes" ELSE "no"
    /\ Note("dispatch")
    /\ Continue(AfterDispatch(delivered'))
    /\ UNCHANGED <<clock, watches, scan_logs, running, tick_now, batch, cur,
                   scan_result, ticks, faults, due_set, handled, unbuilt, gate_seen,
                   call_start, n_calls, repo_faulted>>

\* _handle_availability_match: update_one of lastNotificationSent
NotifWrite ==
    /\ pc = "notif_write"
    /\ UNCHANGED ext_vars
    /\ \E o \in Outcomes :
        /\ Charge(o)
        /\ IF o = "ok"
           THEN /\ watches' = update_one(watches, cur.id,
                     [watches[cur.id] EXCEPT !.lastNotificationSent = clock,
                                             !.updatedAt = clock])
                /\ Note("notif_write")
                /\ Continue("update_active")
           ELSE /\ Note("notif_write_fail")
                /\ RaiseFrom(HandleMatchCatches, "update_active")
                /\ UNCHANGED watches
    /\ UNCHANGED <<clock, scan_logs, running, tick_now, batch, cur,
                   scan_result, ticks, due_set, handled, unbuilt, dispatch_log,
                   gate_seen, delivered, call_start, n_calls, repo_faulted>>

\* _update_watch_after_scan: the $set of the watch document
update_watch_after_scan(doc, status, message, now) ==
    [doc EXCEPT !.lastScannedAt = now,
                !.updatedAt = now,
                !.status = status,
                !.errorMessage = IF message \notin {"null", ""} THEN message ELSE @]

\* process_watch step 4: _update_watch_after_scan(status="active")
UpdateActive ==
    /\ pc = "update_active"
    /\ UNCHANGED ext_vars
    /\ \E o \in Outcomes :
        /\ Charge(o)
        /\ IF o = "ok"
           THEN /\ watches' = update_one(watches, cur.id,
                     update_watch_after_scan(watches[cur.id], "active", "null", clock))
                /\ Note("update")
                /\ Continue("next_scan")
                /\ UNCHANGED repo_faulted
           ELSE /\ repo_faulted' = [repo_faulted EXCEPT ![cur.id] = TRUE]
                /\ Note("update_fail")
                /\ RaiseFrom(UpdateWatchCatches, "next_scan")
                /\ UNCHANGED watches
    /\ UNCHANGED <<clock, scan_logs, running, tick_now, batch, cur,
                   scan_result, ticks, due_set, handled, unbuilt, dispatch_log,
                   gate_seen, delivered, call_start, n_calls>>

\* process_watch except block: _create_scan_log(status=error, result=None)
LogError ==
    /\ pc = "log_error"
    /\ UNCHANGED ext_vars
    /\ \E o \in Outcomes :
        /\ Charge(o)
        /\ IF o = "ok"
           THEN /\ scan_logs' = insert_one(scan_logs,
                                           error_log_doc(cur.id, error_message))
                /\ Note("error_log")
                /\ Continue("update_error")
                /\ UNCHANGED repo_faulted
           ELSE /\ repo_faulted' = [repo_faulted EXCEPT ![cur.id] = TRUE]
                /\ Note("error_log_fail")
                /\ RaiseFrom(CreateScanLogCatches, "update_error")
                /\ UNCHANGED scan_logs
    /\ UNCHANGED <<clock, watches, running, tick_now, batch, cur, scan_result,
                   ticks, due_set, handled, unbuilt, dispatch_log, gate_seen, delivered,
                   call_start, n_calls>>

\* process_watch except block: _update_watch_after_scan(status="error")
UpdateError ==
    /\ pc = "update_error"
    /\ UNCHANGED ext_vars
    /\ \E o \in Outcomes :
        /\ Charge(o)
        /\ IF o = "ok"
           THEN /\ watches' = update_one(watches, cur.id,
                     update_watch_after_scan(watches[cur.id], "error", error_message, clock))
                /\ Note("update_error")
                /\ Continue("next_scan")
                /\ UNCHANGED repo_faulted
           ELSE /\ repo_faulted' = [repo_faulted EXCEPT ![cur.id] = TRUE]
                /\ Note("update_error_fail")
                /\ RaiseFrom(UpdateWatchCatches, "next_scan")
                /\ UNCHANGED watches
    /\ UNCHANGED <<clock, scan_logs, running, tick_now, batch, cur,
                   scan_result, ticks, due_set, handled, unbuilt, dispatch_log,
                   gate_seen, delivered, call_start, n_calls>>

\* --------------------------------------------------------- initial state

\* stop() has not been called
NoStop == [at |-> "none", docs |-> <<>>]

\* the task start() creates: _loop is about to test `while self._running`
NewLoop == [pc |-> "while", iters |-> 0]

\* the statuses of a stored watch
Statuses == {"active", "paused", "expired", "error"}

\* the user has no watch
NoWatches == [st \in Statuses |-> 0]

RequestIds == 1..NumRequests

\* no create_watch call is running for this request slot
NoRequest == [pc |-> "idle", active_count |-> 0, response |-> "none"]

\* send_multi_channel has not been called
NoSend == [via |-> "none"]

\* check_availability has not been called
NoCheck == [pc |-> "idle"]

\* detect_booked_properties has not been called
NoDetect == [pc |-> "idle"]

\* neither next-scan-time function has been called
NoTimed == [op |-> "none"]

\* the user has sent no PATCH or DELETE request
NoUserRequest == [pc |-> "none"]

\* The application has started (main.py lifespan): the services are built and
\* scheduler.start() has set _running and created the one loop task, which
\* pc follows step by step; the watches of the scheduler's collection exist
\* and are due; the user of the API has signed up and has no watch.
Init ==
    /\ clock = StartClock
    /\ \E k \in 0..2 :
         watches = [w \in WatchIds |-> NewWatch(FrequencyOf[(w + k) % 3])]
    /\ scan_logs = <<>>
    /\ running = TRUE
    /\ pc = "loop_top"
    /\ tick_now = NULL
    /\ batch = <<>>
    /\ cur = [id |-> 0, frequency |-> "none"]
    /\ scan_result = "null"
    /\ error_message = "null"
    /\ in_except = FALSE
    /\ ticks = 0
    /\ faults = 0
    /\ exc_origin = "none"
    /\ due_set = {}
    /\ handled = [w \in WatchIds |-> 0]
    /\ unbuilt = {}
    /\ events = <<>>
    /\ dispatch_log = [w \in WatchIds |-> <<>>]
    /\ gate_seen = NULL
    /\ call_start = [lastNotificationSent |-> NULL, lastScannedAt |-> NULL]
    /\ n_calls = [w \in WatchIds |-> 0]
    /\ repo_faulted = [w \in WatchIds |-> FALSE]
    /\ delivered = "null"
    /\ stop_batch = NoStop
    /\ loops = <<NewLoop>>
    /\ user_watches = NoWatches
    /\ requests = [r \in RequestIds |-> NoRequest]
    /\ api_scan = "none"
    /\ user_doc = SignupUser
    /\ sent = NoSend
    /\ checked = NoCheck
    /\ detected = NoDetect
    /\ timed = NoTimed
    /\ user_request = NoUserRequest

Next ==
    \/ LoopTop
    \/ Query
    \/ EndBatch
    \/ BuildWatch
    \/ CheckAvailability
    \/ LogSuccess
    \/ Gate
    \/ UserLookup
    \/ Dispatch
    \/ NotifWrite
    \/ UpdateActive
    \/ LogError
    \/ UpdateError
    \/ NextScan
    \/ SchedulerCatch
    \/ Sleep

Spec == Init /\ [][Next]_vars


\* the scheduler's collection at start: one watch of each frequency in turn
OneRotation == watches = [w \in WatchIds |-> NewWatch(FrequencyOf[w % 3])]

\* -------------------------------------------------------- start and stop

\* as AfterStop, but stop() cancels the loop task
AfterStopCancel(p) == "done"

\* SchedulerService.stop only clears the flag: the loop task stays where it is
AfterStop(p) == p

\* SchedulerService.stop (a call while not running only logs a warning)
stop ==
    /\ running
    /\ running' = FALSE
    /\ stop_batch' = [at |-> pc, docs |-> batch]
    /\ pc' = AfterStop(pc)
    /\ UNCHANGED <<clock, watches, scan_logs, tick_now, batch, cur,
                   scan_result, error_message, in_except, ticks, faults,
                   exc_origin, due_set, handled, unbuilt, events, dispatch_log,
                   gate_seen, call_start, n_calls, repo_faulted, delivered>>
    /\ UNCHANGED <<life_vars, api_vars, notify_vars, side_vars>>

\* the loop task, with stop() called at any moment
StopNext == Next \/ stop

StopInit == Init /\ OneRotation

StopSpec == StopInit /\ [][StopNext]_vars

\* The loop task is an asyncio task: whenever the call it awaits returns (the
\* provider, the repository, the sleep), the event loop resumes it, so a step
\* of the task that stays possible is eventually taken.  stop() is called by
\* the application or never; nothing is assumed about it.
StopFairSpec == StopInit /\ [][StopNext]_vars /\ WF_vars(Next)


\* The tasks start() creates, each at one of: "while" (about to test the
\* flag), "batch" (inside _process_due_watches), "sleep", "done" (returned).

\* SchedulerService.start: a no-op while running; else the flag is set and a
\* new task is created (the task of an earlier start is not looked at)
start ==
    IF running
    THEN UNCHANGED vars
    ELSE /\ Len(loops) < MaxLoops
         /\ running' = TRUE
         /\ loops' = Append(loops, NewLoop)
         /\ UNCHANGED <<clock, watches, scan_logs, pc, tick_now, batch, cur,
                        scan_result, error_message, in_except, ticks, faults,
                        exc_origin, due_set, handled, unbuilt, events,
                        dispatch_log, gate_seen, call_start, n_calls,
                        repo_faulted, delivered>>
         /\ UNCHANGED <<stop_batch, api_vars, notify_vars, side_vars>>

\* the position of task i becomes p
LoopAt(i, p, n) ==
    /\ loops' = [loops EXCEPT ![i] = [pc |-> p, iters |-> n]]
    /\ UNCHANGED <<sched_vars, stop_batch, api_vars, notify_vars, side_vars>>

\* _loop: `while self._running`
loop_while(i) ==
    /\ loops[i].pc = "while"
    /\ IF running
       THEN /\ loops[i].iters < MaxTicks
            /\ LoopAt(i, "batch", loops[i].iters + 1)
       ELSE LoopAt(i, "done", loops[i].iters)

\* _loop: _process_due_watches has returned (or raised, and was logged)
loop_batch(i) ==
    /\ loops[i].pc = "batch"
    /\ LoopAt(i, "sleep", loops[i].iters)

\* _loop: asyncio.sleep is over
loop_sleep(i) ==
    /\ loops[i].pc = "sleep"
    /\ LoopAt(i, "while", loops[i].iters)

LifeNext ==
    \/ start
    \/ stop
    \/ \E i \in DOMAIN loops : loop_while(i)
    \/ \E i \in DOMAIN loops : loop_batch(i)
    \/ \E i \in DOMAIN loops : loop_sleep(i)

LifeInit == Init /\ OneRotation

LifeSpec == LifeInit /\ [][LifeNext]_vars


\* ------------------------------------------------------------- watch API
\* The watches of one user, as create_watch, update_watch and delete_watch
\* and the scan of one of them change them.  Only the status of a document
\* matters here, so the collection is the number of documents of each status.
\* Requests run concurrently: each await of a handler ends a step.

\* as limit_reached, but the comparison is > instead of >=
limit_reached_off_by_one(active_count) ==
    active_count > MAX_ACTIVE_WATCHES_PER_USER

\* create_watch: `if active_count >= MAX_ACTIVE_WATCHES_PER_USER`
limit_reached(active_count) == active_count >= MAX_ACTIVE_WATCHES_PER_USER

\* documents in the collection
Total(ws) == ws["active"] + ws["paused"] + ws["expired"] + ws["error"]

\* update_one {"$set": {"status": to}} on a document of status from
SetStatus(ws, from, to) == [ws EXCEPT ![from] = @ - 1, ![to] = @ + 1]

\* documents of status st other than the one being scanned
OthersWith(st) == user_watches[st] - (IF api_scan = st THEN 1 ELSE 0)

\* create_watch up to its first await: count_documents of the active watches
create_watch_count(r) ==
    /\ requests[r].pc = "idle"
    /\ requests' = [requests EXCEPT ![r] =
           [pc |-> "counted", active_count |-> user_watches["active"],
            response |-> "none"]]
    /\ UNCHANGED <<user_watches, api_scan>>
    /\ UNCHANGED <<sched_vars, stop_batch, life_vars, notify_vars, side_vars>>

\* create_watch after the count: HTTP 400 before any write, or insert_one of
\* a document with status active
create_watch_insert(r) ==
    /\ requests[r].pc = "counted"
    /\ IF limit_reached(requests[r].active_count)
       THEN /\ requests' = [requests EXCEPT ![r] =
                   [pc |-> "idle", active_count |-> 0, response |-> "400"]]
            /\ UNCHANGED user_watches
       ELSE /\ Total(user_watches) < MaxUserWatches
            /\ user_watches' = [user_watches EXCEPT !["active"] = @ + 1]
            /\ requests' = [requests EXCEPT ![r] =
                   [pc |-> "idle", active_count |-> 0, response |-> "201"]]
    /\ UNCHANGED api_scan
    /\ UNCHANGED <<sched_vars, stop_batch, life_vars, notify_vars, side_vars>>

\* update_watch with a status: the status is written as given, with no count
\* of the active watches
update_watch(from, to, scanned) ==
    /\ IF scanned
       THEN /\ api_scan = from
            /\ api_scan' = to
       ELSE /\ OthersWith(from) > 0
            /\ UNCHANGED api_scan
    /\ user_watches' = SetStatus(user_watches, from, to)
    /\ UNCHANGED requests
    /\ UNCHANGED <<sched_vars, stop_batch, life_vars, notify_vars, side_vars>>

\* delete_watch: delete_one
delete_watch(from, scanned) ==
    /\ IF scanned
       THEN /\ api_scan = from
            /\ api_scan' = "deleted"
       ELSE /\ OthersWith(from) > 0
            /\ UNCHANGED api_scan
    /\ user_watches' = [user_watches EXCEPT ![from] = @ - 1]
    /\ UNCHANGED requests
    /\ UNCHANGED <<sched_vars, stop_batch, life_vars, notify_vars, side_vars>>

\* the due-query selected an active watch of the user and process_watch
\* began to work on it
process_watch_begin ==
    /\ api_scan = "none"
    /\ user_watches["active"] > 0
    /\ api_scan' = "active"
    /\ UNCHANGED <<user_watches, requests>>
    /\ UNCHANGED <<sched_vars, stop_batch, life_vars, notify_vars, side_vars>>

\* process_watch ends with _update_watch_after_scan: status active, or error;
\* the update_one matches nothing when the document was deleted meanwhile
process_watch_update ==
    /\ api_scan # "none"
    /\ \E st \in {"active", "error"} :
         user_watches' = IF api_scan = "deleted"
                         THEN user_watches
                         ELSE SetStatus(user_watches, api_scan, st)
    /\ api_scan' = "none"
    /\ UNCHANGED requests
    /\ UNCHANGED <<sched_vars, stop_batch, life_vars, notify_vars, side_vars>>

ApiNext ==
    \/ \E r \in RequestIds : create_watch_count(r)
    \/ \E r \in RequestIds : create_watch_insert(r)
    \/ \E from \in Statuses, to \in {"active", "paused", "expired"},
          scanned \in BOOLEAN : update_watch(from, to, scanned)
    \/ \E from \in Statuses, scanned \in BOOLEAN : delete_watch(from, scanned)
    \/ process_watch_begin
    \/ process_watch_update

ApiInit == Init /\ OneRotation

ApiSpec == ApiInit /\ [][ApiNext]_vars


\* --------------------------------------------- preferences and the gateway

\* what a PATCH /me/preferences request carries for a channel
PreferenceInputs == {"null", "true", "false"}

\* update_user_preferences: the $set of one channel's keys
SetPreference(old, given) == IF given = "null" THEN old ELSE given

\* update_user_preferences: the update_one matches the user or not (404);
\* a given channel is written to the top-level key and to
\* notification_preferences.<channel>
update_user_preferences(sms, email, matched) ==
    /\ user_doc' =
         IF matched
         THEN [user_doc EXCEPT
                 !.smsEnabled = IF sms = "null" THEN @ ELSE sms = "true",
                 !.notification_preferences_smsEnabled = SetPreference(@, sms),
                 !.emailEnabled = IF email = "null" THEN @ ELSE email = "true",
                 !.notification_preferences_emailEnabled = SetPreference(@, email)]
         ELSE user_doc
    /\ UNCHANGED sent
    /\ UNCHANGED <<sched_vars, stop_batch, life_vars, api_vars, side_vars>>

\* what `sent` keeps of a send_multi_channel call
SendRecord(via, user_prefs, email, phone, providers, outcomes) ==
    [via |-> via,
     user_prefs |-> user_prefs,
     email |-> email,
     phone |-> phone,
     providers |-> providers,
     outcomes |-> outcomes,
     emailEnabled |-> user_doc.emailEnabled,
     smsEnabled |-> user_doc.smsEnabled,
     out |-> send_multi_channel(user_prefs, email, phone, providers, outcomes)]

\* _handle_availability_match once the user document is read: preferences
\* from notificationPreferences, then send_multi_channel
handle_availability_match ==
    /\ \E outcomes \in [email : ProviderOutcomes, sms : ProviderOutcomes] :
         sent' = SendRecord("scan", scan_user_prefs(user_doc), user_doc.email,
                            user_doc.phone, Providers, outcomes)
    /\ UNCHANGED user_doc
    /\ UNCHANGED <<sched_vars, stop_batch, life_vars, api_vars, side_vars>>

\* destinations a caller can pass
Destinations == {"null", "", "addr"}

\* NotificationManager.send_multi_channel called with any arguments, by a
\* manager with any providers registered
call_send_multi_channel ==
    /\ \E user_prefs \in [emailEnabled : BOOLEAN, smsEnabled : BOOLEAN],
          email \in Destinations, phone \in Destinations,
          providers \in [email : BOOLEAN, sms : BOOLEAN],
          outcomes \in [email : ProviderOutcomes, sms : ProviderOutcomes] :
         sent' = SendRecord("call", user_prefs, email, phone, providers, outcomes)
    /\ UNCHANGED user_doc
    /\ UNCHANGED <<sched_vars, stop_batch, life_vars, api_vars, side_vars>>

\* the user changes preferences while scans of the user's watches find
\* availability
NotifyNext ==
    \/ \E sms \in PreferenceInputs, email \in PreferenceInputs,
          matched \in BOOLEAN : update_user_preferences(sms, email, matched)
    \/ handle_availability_match

NotifyInit == Init /\ OneRotation

NotifySpec == NotifyInit /\ [][NotifyNext]_vars

\* the gateway alone, called with every combination of arguments
GatewayNext == call_send_multi_channel

GatewayInit == Init /\ OneRotation

GatewaySpec == GatewayInit /\ [][GatewayNext]_vars


\* ------------------------------------------------- check_availability calls

\* the watches check_availability is called with
WatchUrls ==
    { <<"h", "/", "rooms", "/", "1">>,
      <<"h", "/", "rooms", "/", "2">>,
      <<" ", "H", "/", "rooms", "/", "2", "/">>,
      <<"h", "/", "ROOMS", "/", "1">>,
      <<"h", "/", "rooms", "/", "1", "2">>,
      MockSuccessUrl }

CheckedWatches == [propertyUrl : WatchUrls, propertyId : {"", "1", "2"}]

\* the listings a run of the Apify actor can return, after
\* _transform_api_response ("none": the listing has no propertyId key)
ScrapedUrls ==
    { <<"h", "/", "rooms", "/", "1">>,
      <<"h", "/", "rooms", "/", "2", "?">>,
      <<"H", "/", "rooms", "/", "2", "/">>,
      <<"h">> }

RealListings == [propertyId : {"1", "2", "none"}, propertyUrl : ScrapedUrls]

\* the listings _mock_scrape_properties makes up: a random id and the URL
\* https://www.airbnb.com/rooms/<id>
MockListings ==
    { [propertyId |-> d, propertyUrl |-> <<"h", "/", "rooms", "/", d>>] :
        d \in Digits }

\* the sequences over S of the lengths from lo to MaxBatch
Batches(S, lo) == UNION { [1..n -> S] : n \in lo..MaxBatch }

\* check_availability up to its await: ParsedAirbnbData from the watch
check_availability_begin ==
    /\ checked.pc \in {"idle", "done"}
    /\ \E watch \in CheckedWatches :
         checked' = [pc |-> "scrape", watch |-> watch]
    /\ UNCHANGED <<core_vars, detect_vars, time_vars, race_vars>>

\* await self.client.scrape_properties(parsed_data): the client is in mock
\* mode, or the Apify run succeeds, or it fails; the mock batch is never empty
call_scrape_properties ==
    /\ checked.pc = "scrape"
    /\ \E mode \in {"mock", "real_ok", "real_raise"} :
       \E real_properties \in (IF mode = "real_ok" THEN Batches(RealListings, 0)
                               ELSE {<<>>}),
          mock_properties \in (IF mode = "real_ok" THEN {<<>>}
                               ELSE Batches(MockListings, 1)) :
         checked' = [pc |-> "match",
                     watch |-> checked.watch,
                     mode |-> mode,
                     scraped_properties |->
                         scrape_properties(mode, real_properties, mock_properties)]
    /\ UNCHANGED <<core_vars, detect_vars, time_vars, race_vars>>

\* check_availability after the await, and the ScanLog status process_watch
\* derives from how it ended
check_availability_match ==
    /\ checked.pc = "match"
    /\ checked' =
         [pc |-> "done",
          watch |-> checked.watch,
          mode |-> checked.mode,
          scraped_properties |-> checked.scraped_properties,
          out |-> check_availability(checked.watch, checked.scraped_properties),
          scan_status |-> scan_status_of(
              check_availability(checked.watch, checked.scraped_properties))]
    /\ UNCHANGED <<core_vars, detect_vars, time_vars, race_vars>>

CheckNext ==
    \/ check_availability_begin
    \/ call_scrape_properties
    \/ check_availability_match

CheckInit == Init /\ OneRotation

CheckSpec == CheckInit /\ [][CheckNext]_vars

\* --------------------------------------------------------- booking detector

\* Python truthiness of prop.get("propertyId") ("none": the key is missing)
HasId(property_id) == property_id \notin {"none", ""}

\* _compare_results: the set of the property ids of the dated batch
available_ids(available_properties) ==
    {available_properties[i].propertyId : i \in DOMAIN available_properties}
        \ {"none", ""}

\* as is_booked, but the ids of the dated batch are not looked at
is_booked_without_lookup(property_id, ids) == HasId(property_id)

\* _compare_results: `if property_id and property_id not in available_ids`
is_booked(property_id, ids) == HasId(property_id) /\ property_id \notin ids

\* prop.copy() with the two keys _compare_results sets
Marked(prop, status, availability) ==
    [propertyId |-> prop.propertyId, status |-> status,
     availability |-> availability]

RECURSIVE BookedFrom(_, _)
BookedFrom(props, ids) ==
    IF props = <<>> THEN <<>>
    ELSE (IF is_booked(Head(props).propertyId, ids)
          THEN <<Marked(Head(props), "booked", "unavailable")>> ELSE <<>>)
         \o BookedFrom(Tail(props), ids)

\* BookingDetector._compare_results
compare_results(all_properties, available_properties) ==
    [booked |-> BookedFrom(all_properties, available_ids(available_properties)),
     available |-> [i \in DOMAIN available_properties |->
                       Marked(available_properties[i], "available", "available")]]

\* detect_booked_properties: the dictionary it returns
detection_result(all_properties, available_properties) ==
    LET c == compare_results(all_properties, available_properties)
    IN  [booked_properties |-> c.booked,
         available_properties |-> c.available,
         total_properties |-> Len(all_properties),
         booked_count |-> Len(c.booked),
         available_count |-> Len(c.available)]

DetectIds == {"1", "2", "3", "none"}

\* the batches a search can return
SearchResults ==
    UNION { [1..n -> [propertyId : DetectIds]] : n \in 0..MaxListings }

\* detect_booked_properties up to the return of _search_without_dates
search_without_dates ==
    /\ detected.pc = "idle"
    /\ \E all_properties \in SearchResults :
         detected' = [pc |-> "dated", all_properties |-> all_properties]
    /\ UNCHANGED <<core_vars, check_vars, time_vars, race_vars>>

\* _search_with_dates returns; _compare_results and the result dictionary
search_with_dates ==
    /\ detected.pc = "dated"
    /\ \E available_properties \in SearchResults :
         detected' = [pc |-> "done",
                      all_properties |-> detected.all_properties,
                      dated |-> available_properties,
                      result |-> detection_result(detected.all_properties,
                                                  available_properties)]
    /\ UNCHANGED <<core_vars, check_vars, time_vars, race_vars>>

\* the caller has the result; the detector keeps no state between calls
detect_return ==
    /\ detected.pc = "done"
    /\ detected' = NoDetect
    /\ UNCHANGED <<core_vars, check_vars, time_vars, race_vars>>

DetectNext ==
    \/ search_without_dates
    \/ search_with_dates
    \/ detect_return

DetectInit == Init /\ OneRotation

DetectSpec == DetectInit /\ [][DetectNext]_vars


\* ------------------------------------------- next scan time, watch creation

\* the fields of a datetime
DateOf(t) == t \div DAY
HourOf(t) == (t % DAY) \div HOUR
MinuteOf(t) == (t % HOUR) \div MINUTE
SecondOf(t) == t % MINUTE

\* datetime.replace(hour=, minute=, second=, microsecond=0)
replace(t, hour, minute, second) ==
    DateOf(t) * DAY + hour * HOUR + minute * MINUTE + second

\* as watches_calculate_next_scan_time, but hourly is not clamped to the hour
watches_calculate_next_scan_time_unclamped(frequency, base_time) ==
    IF frequency = "daily"
    THEN replace(base_time + DAY, DAILY_SCAN_HOUR, 0, 0)
    ELSE IF frequency = "sniper"
    THEN base_time + SNIPER_SCAN_INTERVAL_MINUTES * MINUTE
    ELSE base_time + HOURLY_SCAN_INTERVAL_HOURS * HOUR

\* watches.py calculate_next_scan_time, the copy of the watch API
watches_calculate_next_scan_time(frequency, base_time) ==
    IF frequency = "daily"
    THEN replace(base_time + DAY, DAILY_SCAN_HOUR, 0, 0)
    ELSE IF frequency = "hourly"
    THEN replace(base_time + HOURLY_SCAN_INTERVAL_HOURS * HOUR,
                 HourOf(base_time + HOURLY_SCAN_INTERVAL_HOURS * HOUR), 0, 0)
    ELSE IF frequency = "sniper"
    THEN base_time + SNIPER_SCAN_INTERVAL_MINUTES * MINUTE
    ELSE replace(base_time + HOURLY_SCAN_INTERVAL_HOURS * HOUR,
                 HourOf(base_time + HOURLY_SCAN_INTERVAL_HOURS * HOUR), 0, 0)

\* as watch_doc, but the new watch is due at once
watch_doc_due_now(watch_data, now) ==
    [status |-> "active",
     frequency |-> watch_data.frequency,
     lastScannedAt |-> NULL,
     nextScanAt |-> now,
     expiresAt |-> calculate_expires_at(watch_data.checkInDate),
     createdAt |-> now,
     updatedAt |-> now]

\* create_watch: the document it inserts (the keys that matter to scheduling)
watch_doc(watch_data, now) ==
    [status |-> "active",
     frequency |-> watch_data.frequency,
     lastScannedAt |-> NULL,
     nextScanAt |-> watches_calculate_next_scan_time(watch_data.frequency, now),
     expiresAt |-> calculate_expires_at(watch_data.checkInDate),
     createdAt |-> now,
     updatedAt |-> now]

\* times of day at which the functions are called
ClockTimes ==
    { h * HOUR + m * MINUTE + sec :
        h \in {0, 10, 11, 12, 23}, m \in {0, 30, 55, 59}, sec \in {0, 59} }

BaseTimes == { d * DAY + t : d \in 0..MaxDay, t \in ClockTimes }

\* a frequency argument: the three tiers, another string, or None
FrequencyValues == Frequencies \cup {"weekly", "None"}

\* either copy called with a frequency and a base time
call_calculate_next_scan_time ==
    /\ \E frequency \in FrequencyValues, base_time \in BaseTimes :
         timed' = [op |-> "calculate",
                   frequency |-> frequency,
                   base_time |-> base_time,
                   scheduler |-> calculate_next_scan_time(frequency, base_time),
                   api |-> watches_calculate_next_scan_time(frequency, base_time)]
    /\ UNCHANGED <<core_vars, check_vars, detect_vars, race_vars>>

\* create_watch past the limit test: a WatchCreate (frequency validated,
\* checkInDate today or later) is turned into a document and inserted
create_watch_document ==
    /\ \E frequency \in Frequencies, now \in BaseTimes, ahead \in 0..1 :
         LET watch_data == [frequency |-> frequency,
                            checkInDate |-> DateOf(now) + ahead]
         IN  timed' = [op |-> "create",
                       watch_data |-> watch_data,
                       now |-> now,
                       doc |-> watch_doc(watch_data, now)]
    /\ UNCHANGED <<core_vars, check_vars, detect_vars, race_vars>>

TimeNext ==
    \/ call_calculate_next_scan_time
    \/ create_watch_document

TimeInit == Init /\ OneRotation

TimeSpec == TimeInit /\ [][TimeNext]_vars

\* ------------------------------------- user requests while the loop runs
\* One PATCH or DELETE /watches/{id} request on a watch of the scheduler's
\* collection, made at any moment of the loop task; each await of the handler
\* ends a step.

\* the watch is in the batch of the iteration in progress: queued, or the one
\* being scanned
InTick(id) == \E i \in DOMAIN batch : batch[i].id = id

\* what a WatchUpdate carries: a frequency or a status ("None": not given)
PatchRequests ==
    [frequency : {"daily", "sniper"}, status : {"None"}]
        \cup [frequency : {"None"}, status : {"paused", "expired"}]

\* update_watch up to the return of its find_one (the watch exists: 404 else)
update_watch_find_one ==
    /\ user_request.pc = "none"
    /\ \E id \in WatchIds, update_data \in PatchRequests :
         /\ watches[id] # DeletedDoc
         /\ user_request' = [pc |-> "found",
                             op |-> "patch",
                             id |-> id,
                             frequency |-> update_data.frequency,
                             status |-> update_data.status,
                             lastScannedAt |-> watches[id].lastScannedAt]
    /\ UNCHANGED <<core_vars, check_vars, detect_vars, time_vars>>

\* update_watch: update_doc and its update_one
update_watch_update_one ==
    /\ user_request.pc = "found"
    /\ LET r == user_request
           next_scan_at ==
               IF r.frequency = "None" THEN NULL
               ELSE watches_calculate_next_scan_time(
                        r.frequency,
                        IF r.lastScannedAt # NULL THEN r.lastScannedAt ELSE clock)
       IN  /\ watches' = update_one(watches, r.id,
                 [watches[r.id] EXCEPT
                     !.updatedAt = clock,
                     !.frequency = IF r.frequency = "None" THEN @ ELSE r.frequency,
                     !.nextScanAt = IF r.frequency = "None" THEN @ ELSE next_scan_at,
                     !.status = IF r.status = "None" THEN @ ELSE r.status])
           /\ user_request' = [pc |-> "done",
                               op |-> "patch",
                               id |-> r.id,
                               frequency |-> r.frequency,
                               status |-> r.status,
                               nextScanAt |-> next_scan_at,
                               in_tick |-> InTick(r.id),
                               tick |-> ticks,
                               gate_read |-> FALSE]
    /\ UNCHANGED <<clock, scan_logs, running, pc, tick_now, batch, cur,
                   scan_result, error_message, in_except, ticks, faults,
                   exc_origin, due_set, handled, unbuilt, events, dispatch_log,
                   gate_seen, call_start, n_calls, repo_faulted, delivered>>
    /\ UNCHANGED <<stop_batch, life_vars, api_vars, notify_vars, check_vars,
                   detect_vars, time_vars>>

\* delete_watch: delete_one (the watch exists: 404 else)
delete_watch_delete_one ==
    /\ user_request.pc = "none"
    /\ \E id \in WatchIds :
         /\ watches[id] # DeletedDoc
         /\ watches' = [watches EXCEPT ![id] = DeletedDoc]
         /\ user_request' = [pc |-> "done",
                             op |-> "delete",
                             id |-> id,
                             frequency |-> "None",
                             status |-> "None",
                             nextScanAt |-> NULL,
                             in_tick |-> InTick(id),
                             tick |-> ticks,
                             gate_read |-> (cur.id = id /\ (\E i \in DOMAIN events : events[i] = "gate"))]
    /\ UNCHANGED <<clock, scan_logs, running, pc, tick_now, batch, cur,
                   scan_result, error_message, in_except, ticks, faults,
                   exc_origin, due_set, handled, unbuilt, events, dispatch_log,
                   gate_seen, call_start, n_calls, repo_faulted, delivered>>
    /\ UNCHANGED <<stop_batch, life_vars, api_vars, notify_vars, check_vars,
                   detect_vars, time_vars>>

\* the loop task, with one request of the user at any moment
RaceNext ==
    \/ Next
    \/ update_watch_find_one
    \/ update_watch_update_one
    \/ delete_watch_delete_one

RaceInit == Init /\ OneRotation

RaceSpec == RaceInit /\ [][RaceNext]_vars

\* ---------------------------------------------------------------- claims

Has(e) == \E i \in DOMAIN events : events[i] = e
Cooldown == NOTIFICATION_COOLDOWN_HOURS * HOUR

\* C1: process_watch never propagates an exception to its caller, whatever
\* fails inside it: no exception that reaches the except of the scheduler's
\* for-loop comes out of process_watch.
C1_ProcessWatchContainsFailures == exc_origin # "process_watch"

\* C1 witness: process_watch has returned although the availability check
\* raised and the insert of the error ScanLog raised too.
C1_Witness ==
    /\ pc = "next_scan"
    /\ Has("check_raise")
    /\ Has("error_log_fail")

\* C2 as stated: at the end of an iteration every watch of the due-query
\* has been dispatched to process_watch exactly once.
C2_EveryDueWatchDispatchedOnce ==
    pc = "sleep" => \A w \in due_set : handled[w] = 1

\* C2 amended: at the end of an iteration every watch of the due-query has
\* been handled exactly once: dispatched to process_watch once if its
\* WatchInDB was built, not at all if building it raised; and no other watch
\* was dispatched.
C2_EveryDueWatchHandledOnce ==
    pc = "sleep" =>
        \A w \in WatchIds :
            handled[w] = IF w \in due_set /\ w \notin unbuilt THEN 1 ELSE 0

\* C2 witness: the iteration ended, building the first due watch raised and
\* the watch after it was dispatched.
C2_Witness ==
    /\ pc = "sleep"
    /\ {1, 2} \subseteq due_set
    /\ 1 \in unbuilt
    /\ handled[2] = 1

\* C3 as stated: any two notification dispatch attempts for one watch are at
\* least the cooldown apart, also when a repository write failed.
C3_DispatchesCooldownApart ==
    \A w \in WatchIds :
        \A i, j \in DOMAIN dispatch_log[w] :
            i < j => dispatch_log[w][j] - dispatch_log[w][i] >= Cooldown

\* C4 as stated: when the handling of an AVAILABLE result is over, a dispatch
\* was attempted exactly if the stored lastNotificationSent was null or at
\* least the cooldown old.
C4_DispatchIffCooldownOver ==
    (pc = "update_active" /\ scan_result = "available") =>
        (Has("dispatch") <=>
            should_send_notification(call_start.lastNotificationSent, clock))

\* C5 as stated: at the end of an iteration every watch of the due-query has
\* its nextScanAt recomputed from its frequency and persisted with updatedAt.
C5_NextScanAlwaysPersisted ==
    pc = "sleep" =>
        \A w \in due_set :
            /\ watches[w].nextScanAt =
                   calculate_next_scan_time(watches[w].frequency, tick_now)
            /\ watches[w].nextScanAt > tick_now

\* C6: every write of nextScanAt by the scheduler is strictly greater than
\* the value it replaces, and no other step of the pipeline lowers it.
C6_NextScanStrictlyIncreases ==
    [][ /\ \A w \in WatchIds : watches'[w].nextScanAt >= watches[w].nextScanAt
        /\ (pc = "next_scan" /\ pc' = "for_watch") =>
               watches'[cur.id].nextScanAt > watches[cur.id].nextScanAt ]_vars

\* C6 witness: a watch was scanned in two iterations, its second scan failed,
\* and the scheduler has written its nextScanAt again.
C6_Witness ==
    \E w \in WatchIds :
        /\ pc = "for_watch"
        /\ n_calls[w] = 2
        /\ watches[w].status = "error"
        /\ watches[w].nextScanAt = calculate_next_scan_time(watches[w].frequency, tick_now)
        /\ watches[w].updatedAt = tick_now

\* C7 as stated: a watch marked status=error whose nextScanAt has elapsed is
\* selected by the due-query of the next iteration.
C7_ErrorWatchSelectedAgain ==
    [][ (pc = "query" /\ pc' = "for_watch") =>
            \A w \in WatchIds :
                (watches[w].status = "error" /\ watches[w].nextScanAt <= clock)
                    => w \in due_set' ]_vars

C9_ErrorPathOnAnyFailure ==
    (pc = "next_scan" /\ (Has("check_raise") \/ Has("log_fail"))) =>
        /\ scan_logs # <<>>
        /\ scan_logs[Len(scan_logs)] = error_log_doc(cur.id, error_message)
        /\ watches[cur.id].status = "error"
        /\ watches[cur.id].errorMessage = error_message
        /\ watches[cur.id].lastScannedAt = clock
        /\ ~ Has("gate") /\ ~ Has("dispatch") /\ ~ Has("update")

\* C9 amended: the error path is taken exactly when the availability check
\* raised (a failing success-log insert is swallowed in _create_scan_log and
\* the call goes on with the success path).  On the error path the call
\* attempts the insert of a ScanLog with status=error, result=null and the
\* message, then attempts the update of the watch to status=error with
\* lastScannedAt (and errorMessage, when the message is not empty); each
\* takes effect unless that repository call fails; the notification sub-flow
\* and the status=active update do not run.
C9_ErrorPathOnCheckFailure ==
    pc = "next_scan" =>
        /\ in_except <=> Has("check_raise")
        /\ Has("check_raise") =>
            /\ Has("error_log") \/ Has("error_log_fail")
            /\ Has("error_log") =>
                   /\ scan_logs # <<>>
                   /\ scan_logs[Len(scan_logs)] =
                          [watch_id |-> cur.id, status |-> "error",
                           result |-> "null", error_message |-> error_message]
            /\ Has("update_error") \/ Has("update_error_fail")
            /\ Has("update_error") =>
                   /\ watches[cur.id].status = "error"
                   /\ watches[cur.id].lastScannedAt = clock
                   /\ error_message # "" =>
                          watches[cur.id].errorMessage = error_message
            /\ \A i \in DOMAIN events :
                   events[i] \in {"check_raise", "error_log", "error_log_fail",
                                  "update_error", "update_error_fail"}
        /\ ~ Has("check_raise") =>
            /\ ~ Has("error_log") /\ ~ Has("error_log_fail")
            /\ ~ Has("update_error") /\ ~ Has("update_error_fail")
            /\ Has("update") \/ Has("update_fail")

\* C9 witness: the availability check raised, and the call has appended the
\* error ScanLog and set the watch to status=error.
C9_Witness ==
    /\ pc = "next_scan"
    /\ events = <<"check_raise", "error_log", "update_error">>
    /\ error_message = "provider_error"
    /\ watches[cur.id].status = "error"
    /\ watches[cur.id].errorMessage = "provider_error"

\* C10: within one process_watch call the ScanLog append comes before the
\* dispatch attempt, which comes before the update of status/lastScannedAt;
\* and the cooldown gate reads the lastNotificationSent that was stored when
\* the call began, the call having written nothing to the watch before it.
C10_LogThenDispatchThenUpdate ==
    /\ \A i \in DOMAIN events :
           events[i] = "dispatch" =>
               /\ \E j \in 1..(i - 1) : events[j] \in {"log", "log_fail"}
               /\ \A j \in 1..(i - 1) :
                      events[j] \notin {"update", "update_fail", "notif_write",
                                        "notif_write_fail"}
    /\ \A i \in DOMAIN events :
           events[i] \in {"update", "update_fail"} =>
               \A j \in DOMAIN events :
                   events[j] \in {"dispatch", "log", "log_fail"} => j < i
    /\ Has("gate") => gate_seen = call_start.lastNotificationSent
    /\ pc \in {"check", "log_success", "gate"} =>
           /\ watches[cur.id].lastNotificationSent = call_start.lastNotificationSent
           /\ watches[cur.id].lastScannedAt = call_start.lastScannedAt

\* C10 witness: a call that logged, dispatched, stored lastNotificationSent
\* and then updated the watch, in this order.
C10_Witness ==
    /\ pc = "next_scan"
    /\ events = <<"check", "log", "gate", "user", "dispatch", "notif_write", "update">>
    /\ watches[cur.id].lastNotificationSent = clock
    /\ gate_seen = NULL

\* C15: when the due-query raises, the iteration processes no watch and
\* writes no record, the exception stays inside _process_due_watches, the
\* scheduler stays running, and the loop sleeps at least the check interval
\* and then starts its next iteration.
C15_QueryFailureEndsIteration ==
    [][ /\ (pc = "query" /\ pc' # "for_watch") =>
               /\ pc' = "sleep"
               /\ batch' = <<>>
               /\ watches' = watches
               /\ scan_logs' = scan_logs
               /\ n_calls' = n_calls
               /\ dispatch_log' = dispatch_log
               /\ running' = running
        /\ pc = "sleep" =>
               /\ pc' = "loop_top"
               /\ clock' >= clock + SCHEDULER_CHECK_INTERVAL_SECONDS
               /\ watches' = watches
        /\ (pc = "loop_top" /\ running) => pc' = "query" ]_vars

\* C15 witness: the due-query of the first iteration raised, nothing was
\* processed or written, and the second iteration is at its due-query.
C15_Witness ==
    /\ pc = "query"
    /\ running
    /\ ticks = 2
    /\ faults = 1
    /\ due_set = {}
    /\ unbuilt = {}
    /\ scans = 0
    /\ scan_logs = <<>>
    /\ \A w \in WatchIds : watches[w].lastScannedAt = NULL

\* C16 as stated: no watch is dispatched to process_watch by an iteration
\* whose time is later than the expiresAt of the watch.
C16_NoScanAfterExpiry ==
    pc = "check" => tick_now <= watches[cur.id].expiresAt

\* a failure inside the notification sub-flow of the current call
SubflowFailed ==
    \/ Has("gate_raise")
    \/ Has("user_raise")
    \/ Has("user_missing")
    \/ Has("notif_write_fail")
    \/ delivered = "no"

\* C19: a failure inside the notification sub-flow (the gate's read, the
\* user lookup, every channel failing, the write of lastNotificationSent)
\* does not abort the call: the except block of process_watch is not entered,
\* no error ScanLog is written, the success ScanLog appended before stays the
\* latest one of the watch, and the status=active update with lastScannedAt
\* is still attempted and takes effect unless that update itself raises.
C19_SubflowFailureContained ==
    (pc = "next_scan" /\ SubflowFailed) =>
        /\ ~ in_except
        /\ ~ Has("error_log") /\ ~ Has("error_log_fail")
        /\ ~ Has("update_error") /\ ~ Has("update_error_fail")
        /\ Has("log") =>
               LogsOf(cur.id)[Len(LogsOf(cur.id))] =
                   [watch_id |-> cur.id, status |-> "success",
                    result |-> "available", error_message |-> "null"]
        /\ Has("update") \/ Has("update_fail")
        /\ Has("update") =>
               /\ watches[cur.id].status = "active"
               /\ watches[cur.id].lastScannedAt = clock

\* C19 witness: the write of lastNotificationSent raised after a dispatch,
\* and the call went on to set the watch active.
C19_Witness ==
    /\ pc = "next_scan"
    /\ events = <<"check", "log", "gate", "user", "dispatch",
                  "notif_write_fail", "update">>
    /\ watches[cur.id].status = "active"
    /\ watches[cur.id].lastScannedAt = clock
    /\ LogsOf(cur.id)[Len(LogsOf(cur.id))].status = "success"

\* C20: once the gate passed and send_multi_channel was called, the write of
\* lastNotificationSent = now is attempted whether or not a channel delivered,
\* and sets it unless the write itself raises; a call whose gate did not pass
\* (or that did not reach the gateway) leaves lastNotificationSent as it was.
C20_NotificationTimeNotGatedOnDelivery ==
    /\ (pc \in {"update_active", "next_scan"} /\ Has("dispatch")) =>
           /\ Has("notif_write") \/ Has("notif_write_fail")
           /\ Has("notif_write") => watches[cur.id].lastNotificationSent = clock
    /\ (pc \in {"update_active", "next_scan"} /\ ~ Has("dispatch")) =>
           watches[cur.id].lastNotificationSent = call_start.lastNotificationSent
    /\ (Has("gate") /\ ~ should_send_notification(gate_seen, clock)) =>
           ~ Has("dispatch")

\* C20 witness: no channel delivered, and lastNotificationSent was set to the
\* time of the call all the same.
C20_Witness ==
    /\ pc = "next_scan"
    /\ Has("dispatch")
    /\ delivered = "no"
    /\ Has("notif_write")
    /\ call_start.lastNotificationSent = NULL
    /\ watches[cur.id].lastNotificationSent = clock

\* C11 as stated: in every reachable state the user has at most
\* MAX_ACTIVE_WATCHES_PER_USER watches with status active.
C11_AtMostFiveActive ==
    user_watches["active"] <= MAX_ACTIVE_WATCHES_PER_USER

\* C12: a create_watch call that counted MAX_ACTIVE_WATCHES_PER_USER or more
\* active watches ends with HTTP 400 and writes nothing: the collection is
\* the same after the call's last step as before it.
C12_RejectedCreateWritesNothing ==
    [][ \A r \in RequestIds :
          (/\ requests[r].pc = "counted"
           /\ requests[r].active_count >= MAX_ACTIVE_WATCHES_PER_USER
           /\ requests'[r].pc = "idle") =>
              /\ requests'[r].response = "400"
              /\ user_watches' = user_watches ]_vars

\* C12 witness: the user has five active watches and a create_watch call has
\* just been answered with HTTP 400.
C12_Witness ==
    /\ user_watches["active"] = MAX_ACTIVE_WATCHES_PER_USER
    /\ Total(user_watches) = MAX_ACTIVE_WATCHES_PER_USER
    /\ requests[1].pc = "idle"
    /\ requests[1].response = "400"

\* positions of the loop task inside the for-loop of _process_due_watches
BatchPcs ==
    {"for_watch", "check", "log_success", "gate", "user_lookup", "dispatch",
     "notif_write", "update_active", "log_error", "update_error", "next_scan",
     "watch_except"}

\* C13: stop() is cooperative.  The call changes nothing but the flag: the
\* loop task stays where it is with its batch.  When stop() was called inside
\* a batch and the iteration has ended, every watch that remained was handled
\* (and, no repository call having failed, has its nextScanAt recomputed and
\* stored).  The loop leaves `while self._running` at its next test and
\* begins no due-query once it has seen the flag cleared.
C13_StopIsCooperative ==
    /\ [] ( /\ (/\ ~ running
                /\ pc \in {"sleep", "loop_top", "done"}
                /\ stop_batch.at \in BatchPcs) =>
                   \A i \in DOMAIN stop_batch.docs :
                       /\ \/ handled[stop_batch.docs[i].id] = 1
                          \/ stop_batch.docs[i].id \in unbuilt
                       /\ faults = 0 =>
                              /\ watches[stop_batch.docs[i].id].nextScanAt =
                                     calculate_next_scan_time(
                                         stop_batch.docs[i].frequency, tick_now)
                              /\ watches[stop_batch.docs[i].id].updatedAt = tick_now
            /\ pc = "done" => (~ running /\ batch = <<>>) )
    /\ [][ /\ (pc = "loop_top" /\ ~ running) => pc' = "done"
           /\ (pc # "query" /\ pc' = "query") => running
           /\ (running /\ ~ running') =>
                  /\ pc' = pc
                  /\ batch' = batch
                  /\ cur' = cur
                  /\ watches' = watches ]_vars

\* C13 witness: stop() was called while the first of two due watches was
\* being checked; both were processed, both have a new nextScanAt, and the
\* loop has ended without another due-query.
C13_Witness ==
    /\ pc = "done"
    /\ ticks = 1
    /\ stop_batch.at = "check"
    /\ Len(stop_batch.docs) = 2
    /\ faults = 0
    /\ \A w \in WatchIds :
           /\ handled[w] = 1
           /\ watches[w].nextScanAt > tick_now
           /\ watches[w].lastScannedAt = tick_now

\* C14 as stated: whatever the sequence of start() and stop() calls, at most
\* one loop task is executing; in particular no two loop tasks are inside
\* _process_due_watches, scanning the same watches, at the same time.
C14_NoTwoLoopsScanning ==
    Cardinality({i \in DOMAIN loops : loops[i].pc = "batch"}) <= 1

\* the arguments of the latest send_multi_channel call, by channel
SentEnabled(ch) ==
    IF ch = "email" THEN sent.user_prefs.emailEnabled
                    ELSE sent.user_prefs.smsEnabled

SentDestination(ch) == IF ch = "email" THEN sent.email ELSE sent.phone

\* C17: send_multi_channel isolates the channels.  No exception leaves it; a
\* provider is invoked only for a channel whose preference is enabled and
\* whose destination is present; it is invoked for every such channel that
\* has a provider, whatever the other channel's provider did; and a provider
\* that raises or returns False is recorded as False for its channel.
C17_ChannelsIsolated ==
    sent.via # "none" =>
        /\ ~ sent.out.raised
        /\ \A ch \in {"email", "sms"} :
             /\ ch \in sent.out.invoked =>
                    /\ SentEnabled(ch)
                    /\ Truthy(SentDestination(ch))
                    /\ sent.out.results[ch] =
                           (IF sent.outcomes[ch] = "true" THEN "true" ELSE "false")
             /\ (SentEnabled(ch) /\ Truthy(SentDestination(ch))) =>
                    /\ sent.providers[ch] => ch \in sent.out.invoked
                    /\ ~ sent.providers[ch] => sent.out.results[ch] = "false"
             /\ ~ (SentEnabled(ch) /\ Truthy(SentDestination(ch))) =>
                    sent.out.results[ch] = ABSENT

\* C17 witness: both channels enabled with destinations, the email provider
\* raised, and the sms provider was invoked all the same and delivered.
C17_Witness ==
    /\ sent.via = "call"
    /\ sent.user_prefs = [emailEnabled |-> TRUE, smsEnabled |-> TRUE]
    /\ sent.outcomes = [email |-> "raise", sms |-> "true"]
    /\ sent.out.invoked = {"email", "sms"}
    /\ sent.out.results = [email |-> "false", sms |-> "true"]
    /\ ~ sent.out.raised

\* C18 as stated: a scan never invokes the provider of a channel that the
\* user document has switched off (emailEnabled / smsEnabled, as signup
\* stores them and update_user_preferences writes them).
C18_NoSendOnDisabledChannel ==
    sent.via = "scan" =>
        /\ "email" \in sent.out.invoked => sent.emailEnabled
        /\ "sms" \in sent.out.invoked => sent.smsEnabled

\* a listing matches the watch: normalized URLs equal, or the same
\* /rooms/<digits> id in both URLs, or the same property id
ListingMatches(listing, watch) ==
    \/ Normalized(listing.propertyUrl) = Normalized(watch.propertyUrl)
    \/ /\ extract_property_id(listing.propertyUrl) # <<>>
       /\ extract_property_id(listing.propertyUrl) =
              extract_property_id(watch.propertyUrl)
    \/ listing.propertyId = watch.propertyId

MatchingListings ==
    {i \in DOMAIN checked.scraped_properties :
        ListingMatches(checked.scraped_properties[i], checked.watch)}

\* C21 as stated: when the scraping provider fails during a check, the
\* failure reaches process_watch as an exception and the scan is recorded
\* with status=error.
C21_ProviderFailureRecordedAsError ==
    (checked.pc = "done" /\ checked.mode = "real_raise") =>
        /\ checked.out.kind = "raised"
        /\ checked.scan_status = "error"

\* C22 as stated: check_availability returns AVAILABLE with the first
\* matching listing of the batch when the batch has a matching listing, and
\* UNAVAILABLE with no listing otherwise.
C22_DirectMatchVerdict ==
    checked.pc = "done" =>
        checked.out = IF MatchingListings = {}
                      THEN Returned("unavailable", 0)
                      ELSE Returned("available", Least(MatchingListings))

\* the property ids in a list of listings
IdsIn(props) == {props[i].propertyId : i \in DOMAIN props}

\* C23: differential detection.  A listing of the date-less batch that has a
\* property id is in the booked list exactly when its id is absent from the
\* dated batch; the booked list holds nothing else and keeps the batch order;
\* every listing of the dated batch is in the available list, in order; no
\* property id is in both lists; the three counts are the sizes of the booked
\* list, of the available list and of the date-less batch.
C23_DifferentialDetection ==
    detected.pc = "done" =>
        LET all == detected.all_properties
            dated == detected.dated
            r == detected.result
        IN  /\ \A i \in DOMAIN all :
                 HasId(all[i].propertyId) =>
                     (all[i].propertyId \in IdsIn(r.booked_properties)
                          <=> all[i].propertyId \notin IdsIn(dated))
            /\ \A j \in DOMAIN r.booked_properties :
                 /\ r.booked_properties[j].status = "booked"
                 /\ r.booked_properties[j].propertyId \in IdsIn(all)
                 /\ HasId(r.booked_properties[j].propertyId)
            /\ Len(r.available_properties) = Len(dated)
            /\ \A k \in DOMAIN dated :
                 /\ r.available_properties[k].propertyId = dated[k].propertyId
                 /\ r.available_properties[k].status = "available"
            /\ \A id \in IdsIn(r.booked_properties) :
                 id \notin IdsIn(r.available_properties)
            /\ r.booked_count = Len(r.booked_properties)
            /\ r.available_count = Len(r.available_properties)
            /\ r.total_properties = Len(all)

\* C23 witness: all = 1, 2, 3 and dated = 2 give booked 1, 3, available 2 and
\* the counts 2, 1, 3.
C23_Witness ==
    /\ detected.pc = "done"
    /\ detected.all_properties =
           <<[propertyId |-> "1"], [propertyId |-> "2"], [propertyId |-> "3"]>>
    /\ detected.dated = <<[propertyId |-> "2"]>>
    /\ detected.result.booked_properties =
           <<[propertyId |-> "1", status |-> "booked", availability |-> "unavailable"],
             [propertyId |-> "3", status |-> "booked", availability |-> "unavailable"]>>
    /\ detected.result.available_properties =
           <<[propertyId |-> "2", status |-> "available", availability |-> "available"]>>
    /\ detected.result.booked_count = 2
    /\ detected.result.available_count = 1
    /\ detected.result.total_properties = 3

\* r is the next run for frequency F from time t: daily, the day after t at
\* the configured hour; sniper, five minutes after t; hourly and every other
\* value, the hour that follows t's, on the hour
IsNextRun(r, F, t) ==
    IF F = "daily"
    THEN /\ DateOf(r) = DateOf(t + 24 * HOUR)
         /\ HourOf(r) = DAILY_SCAN_HOUR
         /\ MinuteOf(r) = 0
         /\ SecondOf(r) = 0
    ELSE IF F = "sniper"
    THEN r = t + 5 * MINUTE
    ELSE /\ DateOf(r) = DateOf(t + 1 * HOUR)
         /\ HourOf(r) = HourOf(t + 1 * HOUR)
         /\ MinuteOf(r) = 0
         /\ SecondOf(r) = 0

\* C24: both copies of the next-run function return the next run for the
\* frequency and base time they are given (an unknown or unset frequency
\* counts as hourly), and so agree with each other; 10:30:00 hourly gives
\* 11:00:00.
C24_NextRunFunction ==
    timed.op = "calculate" =>
        /\ IsNextRun(timed.scheduler, timed.frequency, timed.base_time)
        /\ IsNextRun(timed.api, timed.frequency, timed.base_time)
        /\ timed.scheduler = timed.api
        /\ (timed.frequency = "hourly"
              /\ timed.base_time = 10 * HOUR + 30 * MINUTE) =>
               timed.api = 11 * HOUR

\* C24 witness: an unknown frequency at 23:30:59 is treated as hourly by both
\* copies: 00:00:00 of the next day.
C24_Witness ==
    /\ timed.op = "calculate"
    /\ timed.frequency = "weekly"
    /\ timed.base_time = 23 * HOUR + 30 * MINUTE + 59
    /\ timed.scheduler = DAY
    /\ timed.api = DAY

\* C25: the document create_watch stores for a watch of frequency F created
\* at time now has status active, no lastScannedAt, and nextScanAt equal to
\* the next run for F from now, which is not earlier than now.
C25_CreatedWatchSchedule ==
    timed.op = "create" =>
        /\ timed.doc.status = "active"
        /\ timed.doc.lastScannedAt = NULL
        /\ timed.doc.frequency = timed.watch_data.frequency
        /\ IsNextRun(timed.doc.nextScanAt, timed.watch_data.frequency, timed.now)
        /\ timed.doc.nextScanAt >= timed.now

\* C25 witness: a daily watch created at 12:00:00 is first due at 12:00:00 of
\* the next day.
C25_Witness ==
    /\ timed.op = "create"
    /\ timed.watch_data.frequency = "daily"
    /\ timed.now = 12 * HOUR
    /\ timed.doc.status = "active"
    /\ timed.doc.lastScannedAt = NULL
    /\ timed.doc.nextScanAt = DAY + 12 * HOUR

\* the for-loop cannot go on because the model's budget of process_watch
\* calls (MaxScans) is used up
ScanBudgetSpent == pc = "for_watch" /\ batch # <<>> /\ scans >= MaxScans

\* C26: once stop() has cleared the flag (start() is not called again), the
\* loop task eventually terminates: the batch in flight is finished, the flag
\* is seen at the next test of the while condition, and _loop returns.
C26_StopTerminates == (~ running) ~> (pc = "done" \/ ScanBudgetSpent)

\* C26 witness: stop() was called while the first of two due watches was
\* being marked as failed; the loop task has ended.
C26_Witness ==
    /\ pc = "done"
    /\ ~ running
    /\ ticks = 1
    /\ stop_batch.at = "update_error"
    /\ Len(stop_batch.docs) = 2
    /\ batch = <<>>

\* the user's request is over and was a PATCH of watch w
Patched(w) ==
    /\ user_request.pc = "done"
    /\ user_request.op = "patch"
    /\ user_request.id = w

\* the user's request is over and was a DELETE of watch w
Deleted(w) ==
    /\ user_request.pc = "done"
    /\ user_request.op = "delete"
    /\ user_request.id = w

\* C27 as stated: once update_watch has set a watch to paused or expired, no
\* write of the pipeline sets its status back to active, and no later
\* iteration scans it.
C27_PauseNotUndone ==
    \A w \in WatchIds :
        (Patched(w) /\ user_request.status \in {"paused", "expired"}) =>
            /\ watches[w].status # "active"
            /\ (pc = "check" /\ cur.id = w) => ticks = user_request.tick

\* C28 as stated: when an iteration has finished with a watch (no repository
\* call having failed), the stored nextScanAt is the next run for the stored
\* frequency from the iteration's time, or the value update_watch computed.
C28_NextScanMatchesFrequency ==
    \A w \in WatchIds :
        (/\ pc \in {"for_watch", "sleep"}
         /\ w \in due_set
         /\ handled[w] = 1
         /\ ~ InTick(w)
         /\ faults = 0
         /\ watches[w] # DeletedDoc) =>
            \/ watches[w].nextScanAt =
                   calculate_next_scan_time(watches[w].frequency, tick_now)
            \/ /\ Patched(w)
               /\ user_request.frequency # "None"
               /\ watches[w].nextScanAt = user_request.nextScanAt

\* C29: a hard delete is final.  After delete_watch removed the document no
\* write of the pipeline brings a document of that id back; and a watch whose
\* document was removed before the cooldown gate read it gets no dispatch:
\* if the call on a deleted watch is past the gate, the gate had read the
\* document before the deletion.
C29_DeleteIsFinal ==
    \A w \in WatchIds :
        Deleted(w) =>
            /\ watches[w] = DeletedDoc
            /\ (/\ cur.id = w
                /\ \/ pc \in {"user_lookup", "dispatch", "notif_write"}
                   \/ Has("dispatch")) => user_request.gate_read

\* C29 witness: the watch was deleted while its availability check was in
\* flight; the call logged the AVAILABLE result, the gate found no document,
\* nothing was dispatched, the two later updates matched nothing.
C29_Witness ==
    /\ pc = "for_watch"
    /\ Deleted(1)
    /\ user_request.in_tick
    /\ ~ user_request.gate_read
    /\ handled[1] = 1
    /\ ~ InTick(1)
    /\ faults = 0
    /\ Len(LogsOf(1)) = 1
    /\ LogsOf(1)[1].result = "available"
    /\ dispatch_log[1] = <<>>
    /\ watches[1] = DeletedDoc

\* C30: a process_watch call appends at most one ScanLog whatever fails:
\* after n calls a watch has at most n ScanLogs, no call has appended both the
\* success and the error ScanLog, every status=success ScanLog carries a
\* result and every status=error ScanLog carries none.
C30_AtMostOneScanLogPerCall ==
    /\ \A w \in WatchIds : Len(LogsOf(w)) <= n_calls[w]
    /\ ~ (Has("log") /\ Has("error_log"))
    /\ \A i \in DOMAIN scan_logs :
           /\ scan_logs[i].status \in {"success", "error"}
           /\ scan_logs[i].status = "success" =>
                  scan_logs[i].result \in {"available", "unavailable"}
           /\ scan_logs[i].status = "error" => scan_logs[i].result = "null"

\* C30 witness: the call appended the success ScanLog and the update of the
\* watch failed after it; the call is over with that one ScanLog.
C30_Witness ==
    /\ pc = "next_scan"
    /\ Has("log")
    /\ Has("update_fail")
    /\ n_calls[cur.id] = 1
    /\ Len(LogsOf(cur.id)) = 1
    /\ LogsOf(cur.id)[1].status = "success"
    /\ LogsOf(cur.id)[1].result = "available"

====
